---- MODULE Spec2Model ----
(***************************************************************************)
(* Model of the Red Alert MQTT desktop notifier.                           *)
(*                                                                         *)
(*   src/mqtt_notifier.py  : the console entry point (variables n_pc, ...)  *)
(*   src/mqtt_tray_app.py  : the system tray entry point                   *)
(*                                                                         *)
(* Payloads are sequences of bytes; a byte is written as the one-character *)
(* string it decodes to, and BadByte is a byte that is not valid UTF-8.    *)
(***************************************************************************)
EXTENDS Integers, Sequences, FiniteSets, TLC

\* Longest payload drawn for the console entry point's on_message.
MaxLen == 4

---------------------------------------------------------------------------
(* Text handling: bytes.decode(), str.strip(), str.lower()                 *)

BadByte == "xFF"

Whitespace == {" ", "\n"}

Bytes == {"o", "n", "O", "N", "f", "\"", " ", "\n", BadByte}

\* msg.payload.decode(): UnicodeDecodeError unless every byte is valid UTF-8
DecodeOk(b) == \A i \in 1..Len(b) : b[i] # BadByte

\* the text of a decodable payload (every valid byte here is one ASCII character)
Decode(b) == [i \in 1..Len(b) |-> b[i]]

\* str.strip(): drop the leading and the trailing run of whitespace
Strip(s) ==
    LET keep == {i \in 1..Len(s) : s[i] \notin Whitespace}
    IN  IF keep = {} THEN << >>
        ELSE LET lo == CHOOSE i \in keep : \A j \in keep : i <= j
                 hi == CHOOSE i \in keep : \A j \in keep : j <= i
             IN  SubSeq(s, lo, hi)

LowerChar(ch) ==
    CASE ch = "O" -> "o"
      [] ch = "N" -> "n"
      [] OTHER    -> ch

\* str.lower()
Lower(s) == [i \in 1..Len(s) |-> LowerChar(s[i])]

TRIGGER_VALUES ==
    << <<"o", "n">>, <<"O", "N">>, <<"\"", "o", "n", "\"">>, <<"\"", "O", "N", "\"">> >>

\* [v.lower() for v in TRIGGER_VALUES]
LoweredTriggers == {Lower(TRIGGER_VALUES[i]) : i \in 1..Len(TRIGGER_VALUES)}

\* a plausible slip: the payload is compared without lower-casing it
IsTrigger_NoLower(b) ==
    Strip(Decode(b)) \in {TRIGGER_VALUES[i] : i \in 1..Len(TRIGGER_VALUES)}

\* payload = msg.payload.decode().strip().lower()
\* if payload in [v.lower() for v in TRIGGER_VALUES]
\* (only evaluated when decode() did not raise)
IsTrigger(b) == Lower(Strip(Decode(b))) \in LoweredTriggers

\* every byte string of length at most n
RECURSIVE ByteStrings(_)
ByteStrings(n) ==
    IF n = 0 THEN {<< >>}
    ELSE LET shorter == ByteStrings(n - 1)
         IN  shorter \cup {Append(s, x) : s \in {t \in shorter : Len(t) = n - 1}, x \in Bytes}

---------------------------------------------------------------------------
(* src/mqtt_notifier.py: the console entry point                           *)

VARIABLES
    n_pc,          \* "connect" | "loop" | "exit0" | "exit1" | "crashed"
    n_link,        \* broker session: "none" | "pending" | "up" | "down"
    n_subscribed,  \* client.subscribe(MQTT_TOPIC) has been issued
    n_in,          \* the payload the broker publishes on the topic
    n_ev           \* the step just taken (what the log shows of it)

n_vars == <<n_pc, n_link, n_subscribed, n_in, n_ev>>

NoPayload == << >>

NEvent(kind, p, called, sent, raised) ==
    [kind |-> kind, p |-> p, called |-> called, sent |-> sent, raised |-> raised]

NQuiet(kind) == NEvent(kind, NoPayload, FALSE, FALSE, FALSE)

\* state after the module is loaded and __main__ has created the client;
\* the broker will publish payloads drawn from `payloads`
N_Init(payloads) ==
    /\ n_in \in payloads
    /\ n_pc = "connect"
    /\ n_link = "none"
    /\ n_subscribed = FALSE
    /\ n_ev = NQuiet("start")

\* __main__: client.connect(...) in try/except; on an exception sys.exit(1)
N_Connect(ok) ==
    /\ n_pc = "connect"
    /\ IF ok
       THEN /\ n_pc' = "loop"
            /\ n_link' = "pending"
            /\ n_ev' = NQuiet("connect_ok")
       ELSE /\ n_pc' = "exit1"
            /\ n_link' = "none"
            /\ n_ev' = NQuiet("connect_failed")
    /\ UNCHANGED <<n_subscribed, n_in>>

\* on_connect(client, userdata, flags, rc), called from loop_forever on CONNACK
N_OnConnect(rc) ==
    /\ n_pc = "loop"
    /\ n_link = "pending"
    /\ n_link' = IF rc = 0 THEN "up" ELSE "down"
    /\ n_subscribed' = IF rc = 0 THEN TRUE ELSE n_subscribed
    /\ n_ev' = NQuiet("on_connect")
    /\ UNCHANGED <<n_pc, n_in>>

\* on_message(client, userdata, msg).  notifyOk: notify-send could be run
\* (send_notification catches its own errors).  decode() raising leaves
\* on_message and loop_forever, and __main__ catches only KeyboardInterrupt.
N_OnMessage(b, notifyOk) ==
    /\ n_pc = "loop"
    /\ n_link = "up"
    /\ n_subscribed
    /\ IF ~DecodeOk(b)
       THEN /\ n_pc' = "crashed"
            /\ n_ev' = NEvent("message", b, FALSE, FALSE, TRUE)
       ELSE /\ n_pc' = n_pc
            /\ n_ev' = NEvent("message", b, IsTrigger(b), IsTrigger(b) /\ notifyOk, FALSE)
    /\ UNCHANGED <<n_link, n_subscribed, n_in>>

\* on_disconnect(client, userdata, rc): logs only
N_OnDisconnect ==
    /\ n_pc = "loop"
    /\ n_link = "up"
    /\ n_link' = "down"
    /\ n_ev' = NQuiet("disconnect")
    /\ UNCHANGED <<n_pc, n_subscribed, n_in>>

\* loop_forever reconnects after a lost or refused session
N_Reconnect ==
    /\ n_pc = "loop"
    /\ n_link = "down"
    /\ n_link' = "pending"
    /\ n_ev' = NQuiet("reconnect")
    /\ UNCHANGED <<n_pc, n_subscribed, n_in>>

\* signal_handler(sig, frame) on SIGINT/SIGTERM: client.disconnect(); sys.exit(0)
N_Signal ==
    /\ n_pc \in {"connect", "loop"}
    /\ n_pc' = "exit0"
    /\ n_link' = "none"
    /\ n_ev' = NQuiet("signal")
    /\ UNCHANGED <<n_subscribed, n_in>>

---------------------------------------------------------------------------
(* src/mqtt_tray_app.py: the system tray entry point                       *)

\* MQTTClient instances that can be alive at once (the current one and
\* earlier ones whose threads have not ended)
MaxClients == 2

\* seconds the clock may advance in the full model / in the one-session model
MaxDrift == 1
MaxElapsed == 16

\* messages recorded in the one-session model
MaxMessages == 3

\* "Avoid duplicate alerts within 10 seconds"
AlertWindow == 10

\* time.time() at start-up: seconds since 1970, far more than the window
ClockStart == AlertWindow + 1

DEFAULT_MQTT_BROKER == "192.168.1.100"
DEFAULT_MQTT_TOPIC == "homeassistant/binary_sensor/alert/state"

Hosts == {"", DEFAULT_MQTT_BROKER}
Topics == {"", DEFAULT_MQTT_TOPIC}

\* what the user can leave in a QLineEdit of the settings dialog
DialogTexts(values) == values \cup {" "}

\* a plausible slip: the text is taken as typed
StripText_None(t) == t

\* QLineEdit.text().strip()
StripText(t) == IF t = " " THEN "" ELSE t

Clients == 1..MaxClients

VARIABLES
    now,           \* time.time()
    settings,      \* the module-level Settings instance: [broker, topic]
    settingsFile,  \* settings.json: [exists, broker, topic]
    clients,       \* the MQTTClient instances, by slot
    cur,           \* SystemTrayApp.mqtt_client
    status,        \* status_action text
    icon,          \* tray icon: "disconnected" | "connected" | "alert"
    alertTimer,    \* alert_timer is running
    gui,           \* GUI thread: "idle" | "check" (check_connection decided to reconnect)
    lastAlertAt,   \* time of the last alert dispatched from an MQTT message (0: none)
    recov,         \* recovery episode after a drop of the connected current client
    hist           \* trigger and undecodable messages handled (one-session specification)

t_vars == <<now, settings, settingsFile, clients, cur, status, icon, alertTimer,
            gui, lastAlertAt, recov, hist>>

\* Threads of the tray application that can call into SystemTrayApp
Threads == {"gui", "run", "net"}

VARIABLES
    busy,          \* threads now executing an app callback (delivery specification)
    wire,          \* events the transport has delivered, not yet handled (ordering specification)
    dlg            \* the texts of the settings dialog last accepted: [bt, tt] (settings specification)

d_vars == <<busy, wire, dlg>>

vars == <<t_vars, n_vars, d_vars>>

\* nothing is executing, nothing has arrived, the dialog's fields hold the
\* values they are filled with at first
D_Init ==
    /\ busy = {}
    /\ wire = << >>
    /\ dlg = [bt |-> DEFAULT_MQTT_BROKER, tt |-> DEFAULT_MQTT_TOPIC]

\* MQTTClient.__init__ followed by start(): the thread is about to run()
NewClient ==
    [run |-> "connect", loop |-> "none", conn |-> "none", connected |-> FALSE,
     running |-> TRUE, stopped |-> FALSE, last_alert_time |-> 0, sub |-> ""]

Unused == [NewClient EXCEPT !.run = "unused", !.running = FALSE]

\* Settings.load(): the file's values when it exists, the defaults otherwise
Load(file) ==
    IF file.exists
    THEN [broker |-> file.broker, topic |-> file.topic]
    ELSE [broker |-> DEFAULT_MQTT_BROKER, topic |-> DEFAULT_MQTT_TOPIC]

NoFile == [exists |-> FALSE, broker |-> "", topic |-> ""]

SettingsFiles == {NoFile} \cup [exists : {TRUE}, broker : Hosts, topic : Topics]

\* SystemTrayApp.__init__ has returned: settings loaded, icon and status set,
\* connection_timer started, the first MQTTClient constructed and started
TrayInit ==
    /\ now = ClockStart
    /\ settingsFile \in SettingsFiles
    /\ settings = Load(settingsFile)
    /\ clients = [c \in Clients |-> IF c = 1 THEN NewClient ELSE Unused]
    /\ cur = 1
    /\ status = "Disconnected"
    /\ icon = "disconnected"
    /\ alertTimer = FALSE
    /\ gui = "idle"
    /\ lastAlertAt = 0
    /\ recov = "none"
    /\ hist = << >>

\* SystemTrayApp.mqtt_connected / mqtt_disconnected / mqtt_connection_failed
AppConnected == icon' = "connected" /\ status' = "Connected"
AppDisconnected == icon' = "disconnected" /\ status' = "Disconnected"
AppFailed == icon' = "disconnected" /\ status' = "Connection Failed"

\* The presentation step of show_alert_notification that raises, if any:
\* "icon" (setIcon), "popup" (showMessage), "sound" (inside play_alert_sound)
Failures == {"none", "icon", "popup", "sound"}

\* an exception of setIcon or showMessage leaves show_alert_notification;
\* play_alert_sound catches its own (try/except, then the system beep)
Propagates(fail) == fail \in {"icon", "popup"}

\* the steps of show_alert_notification performed when `fail` raises:
\* setIcon, showMessage, play_alert_sound, alert_timer.start, in this order
StepsDone(fail) ==
    CASE fail = "icon"  -> {}
      [] fail = "popup" -> {"icon"}
      [] fail = "sound" -> {"icon", "popup", "timer"}
      [] OTHER          -> {"icon", "popup", "sound", "timer"}

\* SystemTrayApp.show_alert_notification
ShowAlert(fail) ==
    /\ icon' = IF "icon" \in StepsDone(fail) THEN "alert" ELSE icon
    /\ alertTimer' = IF "timer" \in StepsDone(fail) THEN TRUE ELSE alertTimer

\* a plausible slip: the window's last second is let through
Debounced_AtBoundary(t, last) == t - last >= AlertWindow

\* a plausible slip: the 10 second test is dropped
Debounced_Never(t, last) == TRUE

\* a plausible slip: a shorter window
Debounced_Short(t, last) == t - last > 5

\* current_time - self.last_alert_time > 10
Debounced(t, last) == t - last > AlertWindow

\* the recovery episode after one more mqtt_connected call
RecovConnected ==
    CASE recov = "dropped"   -> "recovered"
      [] recov = "recovered" -> "twice"
      [] OTHER               -> recov

\* MQTTClient.run, line 108: client.connect(settings.broker, settings.port, 60)
\* returns (reachable) or raises; an empty host raises ValueError.
\* On an exception: app.mqtt_connection_failed() and the thread ends.
RunConnect(c, reachable) ==
    /\ clients[c].run = "connect"
    /\ IF reachable /\ settings.broker # ""
       THEN /\ clients' = [clients EXCEPT ![c].run = "loop_start", ![c].conn = "pending"]
            /\ UNCHANGED <<icon, status, recov>>
       ELSE /\ clients' = [clients EXCEPT ![c].run = "done"]
            /\ AppFailed
            /\ recov' = "none"
    /\ UNCHANGED <<now, settings, settingsFile, cur, alertTimer, gui,
                   lastAlertAt, hist, n_vars>>

\* MQTTClient.run, lines 109-113: client.loop_start() starts the network
\* thread; then "while self.running: sleep" (left at once when stop() came
\* first).  A thread started after stop() closed the socket ends at once.
LoopStart(c) ==
    /\ clients[c].run = "loop_start"
    /\ clients' = [clients EXCEPT
                     ![c].loop = IF clients[c].conn = "none" THEN "stopped" ELSE "running",
                     ![c].run = IF clients[c].running THEN "alive" ELSE "done"]
    /\ UNCHANGED <<now, settings, settingsFile, cur, status, icon, alertTimer, gui,
                   lastAlertAt, recov, hist, n_vars>>

\* MQTTClient.on_connect, called by the network thread on CONNACK.
\* subscribe("") raises ValueError out of the callback: the network thread ends.
OnConnect(c, rc) ==
    /\ clients[c].loop = "running"
    /\ clients[c].conn = "pending"
    /\ IF rc = 0
       THEN IF settings.topic = ""
            THEN /\ clients' = [clients EXCEPT ![c].connected = TRUE, ![c].conn = "up",
                                               ![c].loop = "crashed"]
                 /\ UNCHANGED <<icon, status, recov>>
            ELSE /\ clients' = [clients EXCEPT ![c].connected = TRUE, ![c].conn = "up",
                                               ![c].sub = settings.topic]
                 /\ AppConnected
                 /\ recov' = RecovConnected
       ELSE /\ clients' = [clients EXCEPT ![c].connected = FALSE, ![c].conn = "refused"]
            /\ AppFailed
            /\ recov' = "none"
    /\ UNCHANGED <<now, settings, settingsFile, cur, alertTimer, gui,
                   lastAlertAt, hist, n_vars>>

\* MQTTClient.on_disconnect with rc != 0: the transport was lost
OnDisconnect(c) ==
    /\ clients[c].loop = "running"
    /\ clients[c].conn \in {"pending", "up", "refused"}
    /\ clients' = [clients EXCEPT ![c].connected = FALSE, ![c].conn = "down"]
    /\ AppDisconnected
    /\ recov' = IF c = cur /\ clients[c].connected THEN "dropped" ELSE "none"
    /\ UNCHANGED <<now, settings, settingsFile, cur, alertTimer, gui,
                   lastAlertAt, hist, n_vars>>

\* the network thread of loop_start() reconnects a lost session by itself
LoopReconnect(c, reachable) ==
    /\ clients[c].loop = "running"
    /\ clients[c].conn = "down"
    /\ clients' = [clients EXCEPT ![c].conn = IF reachable THEN "pending" ELSE "down"]
    /\ UNCHANGED <<now, settings, settingsFile, cur, status, icon, alertTimer, gui,
                   lastAlertAt, recov, hist, n_vars>>

\* MQTTClient.on_message, called by the network thread for a message on the
\* subscribed topic.  decode() raising, or show_alert_notification raising,
\* leaves the callback and ends the network thread.
OnMessage(c, b, fail, record) ==
    /\ clients[c].loop = "running"
    /\ clients[c].conn = "up"
    /\ clients[c].sub # ""
    /\ LET last == clients[c].last_alert_time
           fires == DecodeOk(b) /\ IsTrigger(b) /\ Debounced(now, last)
       IN  /\ IF ~DecodeOk(b)
              THEN /\ clients' = [clients EXCEPT ![c].loop = "crashed"]
                   /\ UNCHANGED <<icon, alertTimer, lastAlertAt>>
              ELSE IF fires
              THEN /\ clients' = [clients EXCEPT
                                    ![c].last_alert_time = now,
                                    ![c].loop = IF Propagates(fail) THEN "crashed" ELSE @]
                   /\ ShowAlert(fail)
                   /\ lastAlertAt' = now
              ELSE /\ UNCHANGED <<clients, icon, alertTimer, lastAlertAt>>
           /\ hist' = IF record /\ (~DecodeOk(b) \/ IsTrigger(b))
                      THEN Append(hist, [at |-> now, p |-> b, fired |-> fires])
                      ELSE hist
    /\ UNCHANGED <<now, settings, settingsFile, cur, status, gui, recov, n_vars>>

\* MQTTClient.stop: running = False; client.loop_stop(); client.disconnect().
\* loop_stop() joins the network thread when there is one; disconnect() on an
\* open socket sends DISCONNECT, which calls on_disconnect(rc = 0) and closes
\* it; with no socket yet (connect() still in flight) nothing is closed.  The
\* sleeping run() thread sees running = False and returns.
Stopped(cl) ==
    [cl EXCEPT !.running = FALSE,
               !.stopped = TRUE,
               !.loop = IF cl.loop = "running" THEN "stopped" ELSE cl.loop,
               !.run = IF cl.run = "alive" THEN "done" ELSE cl.run,
               !.conn = IF cl.conn \in {"pending", "up", "refused"} THEN "none" ELSE cl.conn,
               !.connected = IF cl.conn \in {"pending", "up", "refused"}
                             THEN FALSE ELSE cl.connected]

\* an instance none of whose threads is alive: its slot can be used again
Dead(cl) == cl.run \in {"unused", "done"} /\ cl.loop # "running"

\* SystemTrayApp.reconnect: stop the current client, construct and start a new one
Reconnect ==
    LET post == [clients EXCEPT ![cur] = Stopped(clients[cur])]
        free == {c \in Clients : Dead(post[c])}
    IN  /\ free # {}
        /\ LET n == CHOOSE c \in free : \A d \in free : c <= d
           IN  /\ clients' = [post EXCEPT ![n] = NewClient]
               /\ cur' = n

\* a plausible slip: the test of the connected flag is inverted
CheckConnection_IfConnected ==
    /\ gui = "idle"
    /\ clients[cur].connected
    /\ gui' = "check"
    /\ UNCHANGED <<now, settings, settingsFile, clients, cur, status, icon, alertTimer,
                   lastAlertAt, recov, hist, n_vars>>

\* SystemTrayApp.check_connection (connection_timer timeout): reads the
\* current client's connected flag, then calls reconnect()
CheckConnection ==
    /\ gui = "idle"
    /\ ~clients[cur].connected
    /\ gui' = "check"
    /\ UNCHANGED <<now, settings, settingsFile, clients, cur, status, icon, alertTimer,
                   lastAlertAt, recov, hist, n_vars>>

\* the reconnect() call of check_connection
TimerReconnect ==
    /\ gui = "check"
    /\ Reconnect
    /\ gui' = "idle"
    /\ UNCHANGED <<now, settings, settingsFile, status, icon, alertTimer,
                   lastAlertAt, recov, hist, n_vars>>

\* the "Reconnect" menu action
MenuReconnect ==
    /\ gui = "idle"
    /\ Reconnect
    /\ recov' = "none"
    /\ UNCHANGED <<now, settings, settingsFile, status, icon, alertTimer, gui,
                   lastAlertAt, hist, n_vars>>

\* SystemTrayApp.show_settings with the dialog accepted: broker and topic as
\* typed, saveOk: settings.save() could write the file
ShowSettings(brokerText, topicText, saveOk) ==
    /\ gui = "idle"
    /\ LET new_broker == StripText(brokerText)
           new_topic == StripText(topicText)
       IN  IF new_broker = "" \/ new_topic = ""
           THEN UNCHANGED <<settings, settingsFile, clients, cur, recov>>
           ELSE /\ settings' = [broker |-> new_broker, topic |-> new_topic]
                /\ IF saveOk
                   THEN /\ settingsFile' = [exists |-> TRUE, broker |-> new_broker,
                                            topic |-> new_topic]
                        /\ Reconnect
                        /\ recov' = "none"
                   ELSE UNCHANGED <<settingsFile, clients, cur, recov>>
    /\ UNCHANGED <<now, status, icon, alertTimer, gui, lastAlertAt, hist, n_vars>>

\* a plausible slip: the test alert is entered in the client's debounce state
TestNotification_Gated(fail) ==
    /\ gui = "idle"
    /\ ShowAlert(fail)
    /\ clients' = [clients EXCEPT ![cur].last_alert_time = now]
    /\ UNCHANGED <<now, settings, settingsFile, cur, status, gui,
                   lastAlertAt, recov, hist, n_vars>>

\* SystemTrayApp.test_notification
TestNotification(fail) ==
    /\ gui = "idle"
    /\ ShowAlert(fail)
    /\ UNCHANGED <<now, settings, settingsFile, clients, cur, status, gui,
                   lastAlertAt, recov, hist, n_vars>>

\* SystemTrayApp.reset_icon_after_alert (alert_timer timeout, single shot)
ResetIcon ==
    /\ gui = "idle"
    /\ alertTimer
    /\ alertTimer' = FALSE
    /\ icon' = IF clients[cur].connected THEN "connected" ELSE "disconnected"
    /\ UNCHANGED <<now, settings, settingsFile, clients, cur, status, gui,
                   lastAlertAt, recov, hist, n_vars>>

\* time passes
Tick(limit) ==
    /\ now < ClockStart + limit
    /\ now' = now + 1
    /\ UNCHANGED <<settings, settingsFile, clients, cur, status, icon, alertTimer, gui,
                   lastAlertAt, recov, hist, n_vars>>

\* payloads delivered in the full model and in the one-session model
TrayPayloads == { <<"O", "N">>, <<"o", "f", "f">>, <<BadByte>> }
SessionPayloads == { <<"O", "N">>, <<"o", "n">>, <<"o", "f", "f">>, <<BadByte>> }

---------------------------------------------------------------------------
(* Specifications                                                          *)

Init == TrayInit /\ N_Init({NoPayload}) /\ D_Init

Next ==
    \/ \E c \in Clients, reachable \in BOOLEAN : RunConnect(c, reachable) /\ UNCHANGED d_vars
    \/ \E c \in Clients : LoopStart(c) /\ UNCHANGED d_vars
    \/ \E c \in Clients, rc \in {0, 5} : OnConnect(c, rc) /\ UNCHANGED d_vars
    \/ \E c \in Clients : OnDisconnect(c) /\ UNCHANGED d_vars
    \/ \E c \in Clients, reachable \in BOOLEAN : LoopReconnect(c, reachable) /\ UNCHANGED d_vars
    \/ \E c \in Clients, b \in TrayPayloads, fail \in Failures :
         OnMessage(c, b, fail, FALSE) /\ UNCHANGED d_vars
    \/ CheckConnection /\ UNCHANGED d_vars
    \/ TimerReconnect /\ UNCHANGED d_vars
    \/ MenuReconnect /\ UNCHANGED d_vars
    \/ \E bt \in DialogTexts(Hosts), tt \in DialogTexts(Topics), saveOk \in BOOLEAN :
         ShowSettings(bt, tt, saveOk) /\ UNCHANGED d_vars
    \/ \E fail \in Failures : TestNotification(fail) /\ UNCHANGED d_vars
    \/ ResetIcon /\ UNCHANGED d_vars
    \/ Tick(MaxDrift) /\ UNCHANGED d_vars

\* the tray application: every thread, timer and menu action
Spec == Init /\ [][Next]_vars

\* one MQTTClient instance and its first broker session: connect, the
\* messages handled (recorded in hist), the clock, the loss of the session;
\* no presentation step raises
SessionNext ==
    \/ \E reachable \in BOOLEAN : RunConnect(1, reachable) /\ UNCHANGED d_vars
    \/ LoopStart(1) /\ UNCHANGED d_vars
    \/ \E rc \in {0, 5} : OnConnect(1, rc) /\ UNCHANGED d_vars
    \/ OnDisconnect(1) /\ UNCHANGED d_vars
    \/ \E b \in SessionPayloads :
         Len(hist) < MaxMessages /\ OnMessage(1, b, "none", TRUE) /\ UNCHANGED d_vars
    \/ Tick(MaxElapsed) /\ UNCHANGED d_vars

SessionInit == Init /\ settingsFile = NoFile

SpecSession == SessionInit /\ [][SessionNext]_vars

\* the console notifier
NotifierInit == TrayInit /\ settingsFile = NoFile /\ N_Init(ByteStrings(MaxLen)) /\ D_Init

NotifierNext ==
    \/ \E ok \in BOOLEAN : N_Connect(ok) /\ UNCHANGED <<t_vars, d_vars>>
    \/ \E rc \in {0, 5} : N_OnConnect(rc) /\ UNCHANGED <<t_vars, d_vars>>
    \/ \E notifyOk \in BOOLEAN : N_OnMessage(n_in, notifyOk) /\ UNCHANGED <<t_vars, d_vars>>
    \/ N_OnDisconnect /\ UNCHANGED <<t_vars, d_vars>>
    \/ N_Reconnect /\ UNCHANGED <<t_vars, d_vars>>
    \/ N_Signal /\ UNCHANGED <<t_vars, d_vars>>

SpecNotifier == NotifierInit /\ [][NotifierNext]_vars

\* an app callback returns to the thread that called it
Return(t) ==
    /\ t \in busy
    /\ busy' = busy \ {t}
    /\ UNCHANGED <<t_vars, n_vars, wire, dlg>>

\* thread t is free to take a step, and is inside an app callback after it
\* when the step called one (the callback's effect is applied at its call)
Calls(t, called) ==
    /\ t \notin busy
    /\ busy' = IF called THEN busy \cup {t} ELSE busy
    /\ UNCHANGED <<wire, dlg>>

\* who executes what: run() calls mqtt_connection_failed in its own thread,
\* the paho network thread calls on_connect / on_message / on_disconnect and
\* through them the app, the GUI thread runs test_notification
DeliveryNext ==
    \/ \E reachable \in BOOLEAN :
         RunConnect(1, reachable) /\ Calls("run", clients'[1].run = "done")
    \/ LoopStart(1) /\ Calls("run", FALSE)
    \/ \E rc \in {0, 5} : OnConnect(1, rc) /\ Calls("net", TRUE)
    \/ OnDisconnect(1) /\ Calls("net", TRUE)
    \/ \E reachable \in BOOLEAN : LoopReconnect(1, reachable) /\ Calls("net", FALSE)
    \/ \E b \in TrayPayloads :
         OnMessage(1, b, "none", FALSE)
            /\ Calls("net", clients'[1].last_alert_time # clients[1].last_alert_time)
    \/ TestNotification("none") /\ Calls("gui", TRUE)
    \/ \E t \in Threads : Return(t)

\* one client and the GUI thread, callbacks taking time to execute
SpecDelivery == SessionInit /\ [][DeliveryNext]_vars

\* the application left to itself while it tries to connect: the clients'
\* threads, the broker and the connection_timer; no menu action, no dialog
RetryNext ==
    \/ \E c \in Clients, reachable \in BOOLEAN : RunConnect(c, reachable) /\ UNCHANGED d_vars
    \/ \E c \in Clients : LoopStart(c) /\ UNCHANGED d_vars
    \/ \E c \in Clients, rc \in {0, 5} : OnConnect(c, rc) /\ UNCHANGED d_vars
    \/ \E c \in Clients : OnDisconnect(c) /\ UNCHANGED d_vars
    \/ \E c \in Clients, reachable \in BOOLEAN : LoopReconnect(c, reachable) /\ UNCHANGED d_vars
    \/ CheckConnection /\ UNCHANGED d_vars
    \/ TimerReconnect /\ UNCHANGED d_vars

\* connection_timer fires every 60 seconds while the Qt event loop runs, and
\* a check_connection that decided to reconnect goes on to call reconnect()
SpecRetry ==
    /\ Init
    /\ [][RetryNext]_vars
    /\ WF_vars(CheckConnection /\ UNCHANGED d_vars)
    /\ WF_vars(TimerReconnect /\ UNCHANGED d_vars)

\* the application left to itself with one broker session after another:
\* as RetryNext, and the messages the broker publishes
WatchNext ==
    \/ \E c \in Clients : RunConnect(c, TRUE) /\ UNCHANGED d_vars
    \/ \E c \in Clients : LoopStart(c) /\ UNCHANGED d_vars
    \/ \E c \in Clients : OnConnect(c, 0) /\ UNCHANGED d_vars
    \/ \E c \in Clients : OnDisconnect(c) /\ UNCHANGED d_vars
    \/ \E c \in Clients : LoopReconnect(c, TRUE) /\ UNCHANGED d_vars
    \/ \E c \in Clients, b \in TrayPayloads : OnMessage(c, b, "none", FALSE) /\ UNCHANGED d_vars
    \/ CheckConnection /\ UNCHANGED d_vars
    \/ TimerReconnect /\ UNCHANGED d_vars

\* a reachable broker, a valid configuration, the connection_timer firing
SpecWatch ==
    /\ SessionInit
    /\ [][WatchNext]_vars
    /\ WF_vars(CheckConnection /\ UNCHANGED d_vars)
    /\ WF_vars(TimerReconnect /\ UNCHANGED d_vars)

\* another topic the user can type into the dialog
OtherTopic == "home/alert"

\* show_settings accepted with these texts; dlg keeps what was typed
Dialog(bt, tt, saveOk) ==
    /\ ShowSettings(bt, tt, saveOk)
    /\ dlg' = [bt |-> bt, tt |-> tt]
    /\ UNCHANGED <<busy, wire>>

\* a reachable broker, the clients' threads, the settings dialog
ConfigNext ==
    \/ \E c \in Clients : RunConnect(c, TRUE) /\ UNCHANGED d_vars
    \/ \E c \in Clients : LoopStart(c) /\ UNCHANGED d_vars
    \/ \E c \in Clients : OnConnect(c, 0) /\ UNCHANGED d_vars
    \/ \E c \in Clients : OnMessage(c, <<"O", "N">>, "none", FALSE) /\ UNCHANGED d_vars
    \/ \E bt \in DialogTexts({DEFAULT_MQTT_BROKER}),
          tt \in DialogTexts(Topics \cup {OtherTopic}),
          saveOk \in BOOLEAN : Dialog(bt, tt, saveOk)

\* started without a settings file; the only reconnect() is the dialog's
SpecConfig == SessionInit /\ [][ConfigNext]_vars

\* events the transport can hold for the network thread
MaxWire == 2

\* trigger messages recorded in the ordering model
MaxHandled == 2

Message(b) == [kind |-> "msg", p |-> b]
Drop == [kind |-> "drop", p |-> NoPayload]

OrderPayloads == { <<"O", "N">>, <<"o", "f", "f">> }

\* the broker publishes on the subscribed topic, or the connection is lost;
\* nothing arrives on a lost connection
Arrive(e) ==
    /\ clients[1].loop = "running"
    /\ clients[1].conn = "up"
    /\ clients[1].sub # ""
    /\ Len(wire) < MaxWire
    /\ \A i \in 1..Len(wire) : wire[i].kind # "drop"
    /\ wire' = Append(wire, e)
    /\ UNCHANGED <<t_vars, n_vars, busy, dlg>>

\* a plausible slip: the newest event is taken first
NextEvent_Newest(w) == Len(w)

\* the one network thread of loop_start() reads the socket in order
NextEvent(w) == 1

\* the network thread takes an event and runs its callback to the end
Handle ==
    /\ wire # << >>
    /\ LET k == NextEvent(wire)
       IN  /\ IF wire[k].kind = "msg"
              THEN OnMessage(1, wire[k].p, "none", TRUE)
              ELSE OnDisconnect(1)
           /\ wire' = SubSeq(wire, 1, k - 1) \o SubSeq(wire, k + 1, Len(wire))
    /\ UNCHANGED <<busy, dlg>>

\* one client session with the events queued by the transport
OrderNext ==
    \/ RunConnect(1, TRUE) /\ UNCHANGED d_vars
    \/ LoopStart(1) /\ UNCHANGED d_vars
    \/ OnConnect(1, 0) /\ UNCHANGED d_vars
    \/ \E b \in OrderPayloads : Len(hist) < MaxHandled /\ Arrive(Message(b))
    \/ Arrive(Drop)
    \/ Handle
    \/ Tick(MaxElapsed) /\ UNCHANGED d_vars

SpecOrder == SessionInit /\ [][OrderNext]_vars

\* one client session and the "Test Notification" menu action: trigger
\* messages queued by the transport, the GUI thread showing test alerts
TestNext ==
    \/ RunConnect(1, TRUE) /\ UNCHANGED d_vars
    \/ LoopStart(1) /\ UNCHANGED d_vars
    \/ OnConnect(1, 0) /\ UNCHANGED d_vars
    \/ Len(hist) < MaxHandled /\ Arrive(Message(<<"O", "N">>))
    \/ Handle
    \/ TestNotification("none") /\ Calls("gui", TRUE)
    \/ Return("gui")
    \/ Tick(MaxElapsed) /\ UNCHANGED d_vars

SpecTest == SessionInit /\ [][TestNext]_vars

\* the tray icon: clients connecting and dropping, alerts from trigger
\* messages and from the menu, the Reconnect menu action, the alert_timer
IconNext ==
    \/ \E c \in Clients : RunConnect(c, TRUE) /\ UNCHANGED d_vars
    \/ \E c \in Clients : LoopStart(c) /\ UNCHANGED d_vars
    \/ \E c \in Clients : OnConnect(c, 0) /\ UNCHANGED d_vars
    \/ \E c \in Clients : OnDisconnect(c) /\ UNCHANGED d_vars
    \/ \E c \in Clients : LoopReconnect(c, TRUE) /\ UNCHANGED d_vars
    \/ \E c \in Clients, fail \in Failures :
         OnMessage(c, <<"O", "N">>, fail, FALSE) /\ UNCHANGED d_vars
    \/ \E fail \in Failures : TestNotification(fail) /\ UNCHANGED d_vars
    \/ MenuReconnect /\ UNCHANGED d_vars
    \/ ResetIcon /\ UNCHANGED d_vars

\* the Qt event loop delivers the alert_timer's timeout once it is due
SpecIcon ==
    /\ SessionInit
    /\ [][IconNext]_vars
    /\ WF_vars(ResetIcon /\ UNCHANGED d_vars)

---------------------------------------------------------------------------
(* Claims                                                                  *)

\* "on"/"ON" in any casing, bare or inside one pair of double quotes
OnForm(s) ==
    \/ /\ Len(s) = 2
       /\ s[1] \in {"o", "O"}
       /\ s[2] \in {"n", "N"}
    \/ /\ Len(s) = 4
       /\ s[1] = "\""
       /\ s[2] \in {"o", "O"}
       /\ s[3] \in {"n", "N"}
       /\ s[4] = "\""

\* b is text that reads as OnForm between surrounding whitespace
ReadsAsOn(b) ==
    /\ \A k \in 1..Len(b) : b[k] # BadByte
    /\ \E i, j \in 1..Len(b) :
         /\ i <= j
         /\ \A k \in 1..(i - 1) : b[k] \in Whitespace
         /\ \A k \in (j + 1)..Len(b) : b[k] \in Whitespace
         /\ OnForm(SubSeq(b, i, j))

\* C1: on_message treats a payload as a trigger (calls the notification)
\* exactly when the payload is text that, surrounding whitespace aside, is
\* on/ON in any casing, bare or in one pair of double quotes; so off, the
\* empty payload and onn are no triggers.
C1_PayloadMatching ==
    n_ev.kind = "message" => (n_ev.called <=> ReadsAsOn(n_ev.p))

\* a quoted, mixed-case trigger was handled and notified
C1_Witness ==
    /\ n_ev.kind = "message"
    /\ n_ev.p = <<"\"", "O", "n", "\"">>
    /\ n_ev.called

IsOnPayload(b) == b \in { <<"O", "N">>, <<"o", "n">> }

\* the time of the latest alert fired before the i-th recorded message (0: none)
LastFireBefore(i) ==
    LET fired == {j \in 1..(i - 1) : hist[j].fired}
    IN  IF fired = {} THEN 0
        ELSE hist[CHOOSE j \in fired : \A k \in fired : k <= j].at

\* C2: a trigger message fires an alert iff the instance has no prior fire
\* or more than 10 seconds have passed since its last fire (5 and exactly 10
\* seconds later: suppressed; 11 seconds later: fired), the first trigger
\* always fires, and last_alert_time is the time of the latest fire.
C2_DebounceDecision ==
    /\ \A i \in 1..Len(hist) :
         IsOnPayload(hist[i].p) =>
            (hist[i].fired <=>
                (LastFireBefore(i) = 0 \/ hist[i].at - LastFireBefore(i) > 10))
    /\ clients[1].last_alert_time = LastFireBefore(Len(hist) + 1)

\* fire at t, suppressed at t + 10, fired at t + 11
C2_Witness ==
    /\ Len(hist) = 3
    /\ \A i \in 1..3 : IsOnPayload(hist[i].p)
    /\ hist[2].at = hist[1].at + 10
    /\ hist[3].at = hist[1].at + 11
    /\ hist[1].fired /\ ~hist[2].fired /\ hist[3].fired

\* the scenario: Connected shown, then "ON" at t0, "on" at t0 + 2 and a
\* trigger at t0 + 15 are the messages handled
Scenario ==
    /\ Len(hist) = 3
    /\ hist[1].p = <<"O", "N">>
    /\ hist[2].p = <<"o", "n">>
    /\ IsOnPayload(hist[3].p)
    /\ hist[2].at = hist[1].at + 2
    /\ hist[3].at = hist[1].at + 15

\* C3: after a successful connect, "ON" at t0 produces an alert, "on" at
\* t0 + 2 produces none, and a trigger at t0 + 15 produces the second alert.
C3_EndToEnd ==
    Scenario =>
        /\ hist[1].fired /\ ~hist[2].fired /\ hist[3].fired
        /\ lastAlertAt = hist[3].at
        /\ clients[1].conn = "up" => (icon = "alert" /\ alertTimer)

C3_Witness == Scenario /\ now = hist[3].at /\ clients[1].connected

\* C4: after an unexpected drop of the connected client the recovery calls
\* mqtt_connected exactly once: no second mqtt_connected follows the first
\* without another drop, failure or user request in between.
C4_OneConnectedPerDrop == recov # "twice"

\* the step is on_message of instance c dispatching an alert at time now
AlertDispatched(c) ==
    /\ clients[c].loop = "running"
    /\ clients[c].last_alert_time # now
    /\ clients'[c].last_alert_time = now

\* C5: an instance on which stop() has returned makes no further state
\* transition of its connection and invokes no app callback, whatever its
\* run() thread was doing when stop() was called.
C5_StopIsFinal ==
    [][\A c \in Clients :
          (clients[c].stopped /\ clients'[c].stopped) =>
              /\ clients'[c].connected = clients[c].connected
              /\ clients'[c].conn = clients[c].conn
              /\ clients'[c].last_alert_time = clients[c].last_alert_time
              /\ (clients'[c] # clients[c] =>
                     /\ status' = status
                     /\ icon' = icon
                     /\ alertTimer' = alertTimer)]_vars

\* C6: any two consecutive alerts dispatched from MQTT messages are more
\* than 10 seconds apart, across disconnects, reconnects and settings changes.
C6_NoAlertStorm ==
    [][\A c \in Clients :
          AlertDispatched(c) =>
              (lastAlertAt = 0 \/ now - lastAlertAt > AlertWindow)]_vars

\* C7: when an alert is dispatched, every presentation step that does not
\* itself raise is performed (tray icon, 30 second reset timer) and the
\* network thread that called on_message goes on running.
C7_SinkIsolation ==
    [][\A c \in Clients :
          AlertDispatched(c) =>
              /\ icon' = "alert"
              /\ alertTimer'
              /\ clients'[c].loop = "running"]_vars

\* C8: a failed connection attempt, the first one included, never ends the
\* process: after it the notifier is still in its network loop.
C8_ConnectFailureNotFatal ==
    n_ev.kind = "connect_failed" => n_pc = "loop"

\* C9: after on_message has handled a payload that cannot be decoded, no
\* alert was fired for it, the debounce state is what it was, and the
\* client's network thread is still running to process later messages.
C9_UndecodableIsNonMatch ==
    \A i \in 1..Len(hist) :
        ~DecodeOk(hist[i].p) =>
            /\ ~hist[i].fired
            /\ clients[1].last_alert_time = LastFireBefore(Len(hist) + 1)
            /\ clients[1].loop = "running"

\* C10: no MQTTClient is about to connect while the broker host or the
\* topic of the configuration in use is empty.
C10_NoStartWithInvalidConfig ==
    \A c \in Clients :
        clients[c].run = "connect" => (settings.broker # "" /\ settings.topic # "")

\* C11: no two app callbacks (show_alert_notification, mqtt_connected,
\* mqtt_disconnected, mqtt_connection_failed) are executing at the same time,
\* for every interleaving of the run() thread, the network thread and the
\* GUI thread.
C11_SerializedDelivery == Cardinality(busy) <= 1

\* the current client's connection attempt has failed: connect() raised in
\* run() (the thread has ended), or on_connect reported rc # 0
AttemptFailed ==
    \/ clients[cur].run = "done" /\ clients[cur].loop = "none"
    \/ clients[cur].conn = "refused"

\* a connection attempt of the current client is under way
AttemptStarted ==
    \/ clients[cur].run = "connect"
    \/ clients[cur].conn = "pending"

\* C12: whenever the current connection attempt has failed, a new attempt is
\* eventually started without user action; no failure leaves the application
\* in a state from which nothing is attempted any more.
C12_RetryAfterFailure == AttemptFailed ~> AttemptStarted

\* the first client's connect failed, the timer replaced it, and the
\* replacement is about to connect
C12_Witness ==
    /\ status = "Connection Failed"
    /\ clients[cur].run = "connect"
    /\ \A c \in Clients \ {cur} : clients[c].run = "unused"

\* the current client counts as Connected but nothing reads its socket any
\* more: the network thread has ended and no on_disconnect was delivered
DeadWhileConnected ==
    /\ clients[cur].connected
    /\ clients[cur].loop = "crashed"

\* C13: when the transport of the nominally Connected client is dead, the
\* periodic check_connection eventually forces a reconnect cycle (the dead
\* client is stopped and replaced).
C13_LivenessCheck == DeadWhileConnected ~> ~DeadWhileConnected

\* C14: an instance on which stop() has returned is Disconnected: its
\* connected flag is False, whatever it was doing when stop() was called.
C14_StoppedIsDisconnected ==
    \A c \in Clients : clients[c].stopped => ~clients[c].connected

\* C15: the configuration of a running client is fixed at its start.  For
\* the client started at launch with the default configuration: as long as
\* no settings were saved (so it was not replaced), every subscribe it has
\* performed, re-connects included, used the topic it was started with.
C15_ConfigFixedAtStart ==
    ~settingsFile.exists => clients[1].sub \in {"", DEFAULT_MQTT_TOPIC}

\* C16: an instance is never Connected without its subscription having been
\* issued: every on_connect with rc = 0 that sets connected also subscribes
\* to the configured topic (and then notifies the app).
C16_ConnectedMeansSubscribed ==
    \A c \in Clients : clients[c].connected => clients[c].sub # ""

\* C17: a message on a topic other than the configured one never produces
\* an alert.  The broker delivers to an instance the messages of the topic
\* it has subscribed to, so an alert is only dispatched while that topic is
\* the configured topic.
C17_ForeignTopicIgnored ==
    [][\A c \in Clients :
          AlertDispatched(c) => clients[c].sub = settings.topic]_vars

\* the network thread has just taken an event from the transport
Handled == Len(wire') < Len(wire)

\* C18: handling a non-matching message, or a trigger within 10 seconds of
\* the last alert, leaves last_alert_time and the rest of the client
\* unchanged and calls nothing on the app; so suppressed triggers do not
\* extend the suppression window.
C18_NoAlertNoEffect ==
    [][(/\ Handled
        /\ Head(wire).kind = "msg"
        /\ \/ ~ReadsAsOn(Head(wire).p)
           \/ /\ clients[1].last_alert_time # 0
              /\ now - clients[1].last_alert_time <= 10)
       => UNCHANGED <<clients, icon, status, alertTimer, lastAlertAt>>]_vars

\* an alert at t and a trigger suppressed at t + 6: the window still counts
\* from t
C18_Witness ==
    /\ Len(hist) = 2
    /\ hist[1].fired /\ ~hist[2].fired
    /\ hist[2].at = hist[1].at + 6
    /\ now = hist[2].at
    /\ clients[1].last_alert_time = hist[1].at

Blank(t) == t \in {"", " "}

\* C20: when the settings dialog is accepted with an empty (after trimming)
\* broker address or an empty topic, the in-memory settings and the settings
\* file are unchanged and the running client is neither stopped nor replaced.
C20_DialogRejection ==
    [][(dlg' # dlg /\ (Blank(dlg'.bt) \/ Blank(dlg'.tt))) =>
          UNCHANGED <<settings, settingsFile, clients, cur>>]_vars

\* a blank broker was typed next to a new topic while the client was
\* connected under the default configuration: nothing was taken over
C20_Witness ==
    /\ dlg.bt = " "
    /\ dlg.tt = OtherTopic
    /\ clients[cur].connected
    /\ ~clients[cur].stopped
    /\ settings.topic = DEFAULT_MQTT_TOPIC

\* the GUI thread has just entered test_notification
TestShown == "gui" \in busy' /\ "gui" \notin busy

\* C21: test_notification shows the alert whatever last_alert_time is and
\* leaves last_alert_time (and the record of MQTT alerts) unchanged; and a
\* trigger message is alerted whenever its own client's window allows it,
\* whether or not a test alert was just shown.
C21_TestBypassesDebounce ==
    [][/\ TestShown =>
             /\ icon' = "alert"
             /\ alertTimer'
             /\ UNCHANGED <<clients, lastAlertAt, hist>>
       /\ (/\ Handled
           /\ Head(wire).kind = "msg"
           /\ ReadsAsOn(Head(wire).p)
           /\ \/ clients[1].last_alert_time = 0
              \/ now - clients[1].last_alert_time > 10) =>
             /\ clients'[1].last_alert_time = now
             /\ lastAlertAt' = now
             /\ icon' = "alert"]_vars

\* a test alert is on screen and the trigger message handled in the same
\* second has been alerted as the client's first alert
C21_Witness ==
    /\ "gui" \in busy
    /\ Len(hist) = 1
    /\ hist[1].fired
    /\ hist[1].at = now
    /\ clients[1].last_alert_time = now

\* C22: whenever the tray status reads "Status: Connected", the current
\* mqtt_client's connected flag is True.
C22_StatusMatchesClient ==
    status = "Connected" => clients[cur].connected

\* reconnect() has replaced a connected client: the status text still reads
\* Connected while the new current client has not connected
C22_StaleStatus ==
    /\ status = "Connected"
    /\ cur = 2
    /\ clients[1].stopped
    /\ ~clients[cur].connected

\* the alert_timer's timeout is delivered
TimerFires == alertTimer /\ ~alertTimer'

\* C23: once the icon is the alert icon it eventually is another icon; and
\* when the alert_timer fires the icon becomes the connected icon iff the
\* current client's connected flag is True, the disconnected icon otherwise.
C23_AlertIconResets ==
    /\ (icon = "alert") ~> (icon # "alert")
    /\ [][TimerFires =>
            icon' = IF clients[cur].connected THEN "connected" ELSE "disconnected"]_vars

\* the alert icon is showing and no alert_timer is pending to reset it
C23_AlertIconStuck ==
    /\ icon = "alert"
    /\ ~alertTimer
    /\ gui = "idle"

====
